---- MODULE Spec2Model ----
(***************************************************************************)
(* Model of the Clawdbot sandbox worker: the router, the health route,     *)
(* the gated debug sub-router, the gateway supervisor                      *)
(* (ensureClawdbotGateway), the registry lookup                            *)
(* (findExistingClawdbotProcess), the catch-all proxy route and the        *)
(* sandbox processes it manages.  Every await of the worker is one step,   *)
(* so concurrent requests interleave exactly at the awaits.  Spec serves   *)
(* requests to every route one after the other; RaceSpec serves            *)
(* overlapping requests to the backend.  FnSpec applies the worker's       *)
(* helper functions (buildEnvVars, findExistingClawdbotProcess) to inputs  *)
(* of their own.  ScriptSpec runs the start script (onboard, config patch, *)
(* gateway launch) and SyncSpec its background sync loop next to a gateway *)
(* that writes files.                                                      *)
(***************************************************************************)
EXTENDS Integers, Sequences, FiniteSets, TLC

\* Number of requests served one after the other.
NumReqs == 1

\* Number of overlapping requests in the specification of racing requests.
NumRacers == 2

\* Largest number of bindings that have a value in an environment.
MaxBindings == 2

\* Longest process list handed to the registry lookup.
MaxProcs == 3

\* Number of times the start script is run in one container.
MaxRuns == 2

\* Number of file writes by the gateway while the sync loop runs.
MaxWrites == 2

CLAWDBOT_PORT == 18789
STARTUP_TIMEOUT_MS == 180000

VARIABLES
    registry,   \* the sandbox's process list, in enumeration order
    req,        \* per request: position in the handler, locals and history
    fn,         \* a helper function of the worker applied to an input
    script,     \* a run of the start script: environment, config file, launch
    sync        \* the start script's background sync loop and its files

vars == <<registry, req, fn, script, sync>>

\* What the worker's request handling leaves alone.
others == <<fn, script, sync>>

----------------------------------------------------------------------------
\* Command lines, as sequences of tokens.
StartCommand == <<"/usr/local/bin/", "start-clawdbot.sh">>
GatewayCommand == <<"clawdbot", "gateway", "--port", "18789">>
VersionCommand == <<"clawdbot", "--version">>
BuildInfoCommand == <<"cat", "/root/.clawdbot/build-info.json">>

\* String.prototype.includes on token sequences: needle occurs contiguously.
Includes(cmd, needle) ==
    \E i \in 0..(Len(cmd) - Len(needle)) :
        \A j \in 1..Len(needle) : cmd[i + j] = needle[j]

\* The command test of findExistingClawdbotProcess.
MatchesGatewayCommand(cmd) ==
    \/ Includes(cmd, <<"start-clawdbot.sh">>)
    \/ Includes(cmd, <<"clawdbot", "gateway">>)

\* The status test of findExistingClawdbotProcess.
IsLiveStatus(st) == st = "starting" \/ st = "running"

\* Variant of FirstMatchFrom that returns the last matching entry.
LastMatchFrom(procs, i) ==
    LET S == { j \in i..Len(procs) :
                 MatchesGatewayCommand(procs[j].command)
                 /\ IsLiveStatus(procs[j].status) }
    IN  IF S = {} THEN 0
        ELSE procs[CHOOSE j \in S : \A k \in S : k <= j].id

\* Index of the first entry of procs that findExistingClawdbotProcess
\* returns, 0 for null.
RECURSIVE FirstMatchFrom(_, _)
FirstMatchFrom(procs, i) ==
    IF i > Len(procs) THEN 0
    ELSE IF MatchesGatewayCommand(procs[i].command) /\ IsLiveStatus(procs[i].status)
         THEN procs[i].id
         ELSE FirstMatchFrom(procs, i + 1)

findExistingClawdbotProcess(procs) == FirstMatchFrom(procs, 1)

\* The live gateway processes of a process list.
LiveGateways(procs) ==
    { i \in DOMAIN procs :
        MatchesGatewayCommand(procs[i].command) /\ IsLiveStatus(procs[i].status) }

----------------------------------------------------------------------------
\* Sandbox side.

\* A process entry: id is its position in the list; reachable is whether the
\* gateway port accepts connections for it.
Proc(id, cmd, st, rch) ==
    [id |-> id, command |-> cmd, status |-> st, reachable |-> rch]

\* The start script's pkill -9 of every gateway that is serving.
Pkill(procs, self) ==
    [i \in DOMAIN procs |->
        IF i # self /\ MatchesGatewayCommand(procs[i].command)
           /\ procs[i].status = "running" /\ procs[i].reachable
        THEN [procs[i] EXCEPT !.status = "killed", !.reachable = FALSE]
        ELSE procs[i]]

\* The registry after a process is spawned with the given status.
Spawn(procs, cmd, st) ==
    LET id == Len(procs) + 1
        added == Append(procs, Proc(id, cmd, st, FALSE))
    IN  IF st = "running" /\ cmd = StartCommand THEN Pkill(added, id) ELSE added

\* Initial process lists.
InitRegistries ==
    { <<>>,
      << Proc(1, StartCommand, "running", TRUE) >>,
      << Proc(1, GatewayCommand, "running", FALSE) >>,
      << Proc(1, StartCommand, "starting", FALSE) >>,
      << Proc(1, VersionCommand, "running", FALSE),
         Proc(2, GatewayCommand, "exited", FALSE) >> }

InitReq ==
    [pc |-> "idle", existing |-> 0, process |-> 0, e |-> "none",
     outcome |-> "pending", ret |-> 0, error |-> "none",
     fwd |-> "none", status |-> 0,
     nList |-> 0, nProbe |-> 0, nKill |-> 0, nStart |-> 0, nLogs |-> 0,
     probedOk |-> {}, killedId |-> 0, existingProbe |-> "none",
     newProbe |-> "none", listThrew |-> FALSE, sawNoGateway |-> FALSE,
     built |-> "none", upgrade |-> "unread", hint |-> "none",
     killThrew |-> FALSE,
     method |-> "unread", path |-> <<"unread">>, gate |-> "unread",
     handler |-> "none", port |-> 0, fwdFailed |-> FALSE, qid |-> 0,
     fwdRequest |-> "none",
     probe |-> [port |-> 0, mode |-> "none", timeout |-> 0]]

\* No helper call, no script run and no sync loop is modelled next to the
\* worker's request handling.
NoCall == [name |-> "none", input |-> <<>>, output |-> <<>>, done |-> TRUE]
NoScript == [pc |-> "none"]
NoSync == [pc |-> "none"]

Init ==
    /\ registry \in InitRegistries
    /\ req = [r \in 1..NumReqs |-> InitReq]
    /\ fn = NoCall /\ script = NoScript /\ sync = NoSync

\* The same worker with overlapping requests, on a sandbox that runs nothing.
InitRace ==
    /\ registry = <<>>
    /\ req = [r \in 1..NumRacers |-> InitReq]
    /\ fn = NoCall /\ script = NoScript /\ sync = NoSync

Reqs == DOMAIN req

----------------------------------------------------------------------------
\* The router.

\* Request methods and paths (a path is the sequence of its segments).
Methods == {"GET", "POST"}
RootPath == <<>>
HealthPath == <<"sandbox-health">>
Paths ==
    { RootPath, HealthPath, <<"debug", "version">>, <<"debug", "processes">>,
      <<"debug", "logs">>, <<"debug", "xyz">> }

\* The pattern '/debug/*' of the gate middleware.
IsDebugPath(path) == Len(path) >= 2 /\ path[1] = "debug"

\* Values of the DEBUG_ROUTES_ENABLED binding and the middleware's test.
DebugGates == {"undefined", "false", "true"}
DebugEnabled(gate) == gate # "false"

\* Variant of Route whose gate middleware always calls next.
RouteGateOpen(method, path, gate) ==
    IF method = "GET" /\ path = HealthPath THEN "health"
    ELSE IF method = "GET" /\ path = <<"debug", "version">> THEN "version"
    ELSE IF method = "GET" /\ path = <<"debug", "processes">> THEN "processes"
    ELSE IF method = "GET" /\ path = <<"debug", "logs">> THEN "logs"
    ELSE "proxy"

\* The handler that answers a request, in the order of registration:
\* app.get('/sandbox-health'), the gate on '/debug/*', the three GET routes
\* of the debug sub-router, then app.all('*').
Route(method, path, gate) ==
    IF method = "GET" /\ path = HealthPath THEN "health"
    ELSE IF IsDebugPath(path) /\ ~DebugEnabled(gate) THEN "disabled"
    ELSE IF method = "GET" /\ path = <<"debug", "version">> THEN "version"
    ELSE IF method = "GET" /\ path = <<"debug", "processes">> THEN "processes"
    ELSE IF method = "GET" /\ path = <<"debug", "logs">> THEN "logs"
    ELSE "proxy"

\* A request as the router dispatches it to handler h; the gate is read for
\* the paths of the gate middleware only.
Dispatched(q, h, method, path, gate) ==
    [q EXCEPT !.handler = h, !.method = method, !.path = path,
              !.gate = IF IsDebugPath(path) /\ h # "health"
                       THEN gate ELSE "unread"]

\* A request inside its handler: method, path and gate are not read again.
InHandler(q) ==
    [q EXCEPT !.method = "unread", !.path = <<"unread">>, !.gate = "unread"]

\* Requests are taken one after the other: slot r is served when the slots
\* before it are answered.
InTurn(r) ==
    /\ req[r].pc = "idle"
    /\ \A o \in Reqs : o < r => req[o].pc = "done"

----------------------------------------------------------------------------
\* Worker side: one step per await of the catch-all handler.

\* Values of the Upgrade header (NoHeader: the header is absent).
UpgradeHeaders == {"NoHeader", "websocket", "WebSocket", "WEBSOCKET", "h2c"}

\* Variant of ToLowerCase that leaves the value as it is: the comparison
\* becomes case-sensitive.
ToLowerCaseIdentity(h) == h

\* String.prototype.toLowerCase on the header values.
ToLowerCase(h) ==
    CASE h \in {"WebSocket", "WEBSOCKET"} -> "websocket"
      [] OTHER -> h

\* Values of the ANTHROPIC_API_KEY binding; Truthy is JavaScript's truthiness
\* of a binding.
ApiKeys == {"undefined", "", "sk-ant"}
Truthy(v) == v \notin {"undefined", ""}

\* The message of an error raised by a sandbox call: its own text, which
\* holds nothing of the container's stderr.
Message(err) == <<err>>

\* The hint of the 503 body.
Hint(key, errorMessage) ==
    IF ~Truthy(key) THEN "ANTHROPIC_API_KEY is not set"
    ELSE IF \/ Includes(errorMessage, <<"heap out of memory">>)
            \/ Includes(errorMessage, <<"OOM">>)
         THEN "Gateway ran out of memory"
         ELSE "Check worker logs"

\* A handled request: the handler's locals are gone, what is left is the
\* response (its status, the error detail and hint of a 503), what was
\* forwarded and the startup message that was built from the fetched logs.
Response(q, st, err) ==
    [InitReq EXCEPT !.pc = "done", !.outcome = q.outcome, !.fwd = q.fwd,
                    !.status = st, !.error = err, !.built = q.built,
                    !.hint = q.hint, !.handler = q.handler,
                    !.fwdFailed = q.fwdFailed]

\* Variant of Fail503 whose catch block does not return: the handler goes
\* on to forward the request.
Fail503FallsThrough(q, err, key) ==
    [q EXCEPT !.pc = "forward", !.outcome = "threw",
              !.hint = Hint(key, Message(err)), !.error = err,
              !.fwd = "containerFetch", !.port = CLAWDBOT_PORT]

\* The catch block of the handler: ensure threw err, answer 503 with the
\* error's message as details and the hint chosen from the binding key.
Fail503(q, err, key) ==
    Response([q EXCEPT !.outcome = "threw", !.hint = Hint(key, Message(err))],
             503, err)

\* ensure returned process p; the handler reads the Upgrade header and
\* issues wsConnect or containerFetch on CLAWDBOT_PORT.
ReturnAndForward(q, p, h) ==
    [q EXCEPT !.pc = "forward", !.outcome = "returned", !.ret = p,
              !.upgrade = h, !.port = CLAWDBOT_PORT,
              !.fwdRequest = "c.req.raw",
              !.fwd = IF h # "NoHeader" /\ ToLowerCase(h) = "websocket"
                      THEN "wsConnect" ELSE "containerFetch"]

\* Variant of ProbeOptions that waits a shorter time for a process that
\* reports itself running.
ProbeOptionsByStatus(st) ==
    [port |-> CLAWDBOT_PORT, mode |-> "tcp",
     timeout |-> IF st = "running"
                 THEN STARTUP_TIMEOUT_MS \div 10 ELSE STARTUP_TIMEOUT_MS]

\* The arguments of waitForPort for a process that reports status st.
ProbeOptions(st) ==
    [port |-> CLAWDBOT_PORT, mode |-> "tcp", timeout |-> STARTUP_TIMEOUT_MS]

\* ensure after the lookup gave m (0: null): probe the existing process or
\* go on to start a new one.
AfterLookup(q, m) ==
    IF m # 0
    THEN [InHandler(q) EXCEPT !.pc = "waitExisting", !.existing = m,
                              !.nProbe = @ + 1,
                              !.probe = ProbeOptions(registry[m].status)]
    ELSE [InHandler(q) EXCEPT !.pc = "start", !.existing = 0,
                              !.nStart = @ + 1]

\* A request reaches the catch-all route: ensure calls the lookup, which
\* awaits listProcesses.
Arrive(r, method, path, gate) ==
    /\ req[r].pc = "idle"
    /\ Route(method, path, gate) = "proxy"
    /\ req' = [req EXCEPT ![r] =
                [Dispatched(@, "proxy", method, path, gate)
                   EXCEPT !.pc = "find", !.nList = @ + 1,
                          !.sawNoGateway = (LiveGateways(registry) = {})]]
    /\ UNCHANGED <<registry, others>>

\* A request reaches the health route: answered with the static body.
ArriveHealth(r, method, path, gate) ==
    /\ req[r].pc = "idle"
    /\ Route(method, path, gate) = "health"
    /\ req' = [req EXCEPT ![r] =
                [Dispatched(@, "health", method, path, gate)
                   EXCEPT !.pc = "done", !.status = 200,
                          !.port = CLAWDBOT_PORT]]
    /\ UNCHANGED <<registry, others>>

\* A request under /debug/ while the gate is off: the middleware answers 404.
ArriveDisabled(r, method, path, gate) ==
    /\ req[r].pc = "idle"
    /\ Route(method, path, gate) = "disabled"
    /\ req' = [req EXCEPT ![r] =
                [Dispatched(@, "disabled", method, path, gate)
                   EXCEPT !.pc = "done", !.status = 404]]
    /\ UNCHANGED <<registry, others>>

\* listProcesses resolves with the current process list.
ListReturns(r) ==
    /\ req[r].pc = "find"
    /\ req' = [req EXCEPT ![r] =
                AfterLookup(req[r], findExistingClawdbotProcess(registry))]
    /\ UNCHANGED <<registry, others>>

\* Variant of ListThrows in which the lookup has no try/catch: the registry
\* fault fails the call.
ListThrowsPropagates(r) ==
    /\ req[r].pc = "find"
    /\ \E key \in ApiKeys :
         req' = [req EXCEPT ![r] = Fail503(req[r], "RegistryUnavailable", key)]
    /\ UNCHANGED <<registry, others>>

\* listProcesses rejects: logged, the lookup returns null.
ListThrows(r) ==
    /\ req[r].pc = "find"
    /\ req' = [req EXCEPT ![r] =
                AfterLookup([req[r] EXCEPT !.listThrew = TRUE], 0)]
    /\ UNCHANGED <<registry, others>>

\* Variant of ExistingProbeReady without the return after the probe: the
\* call falls through to start a new process.
ExistingProbeReadyFallsThrough(r) ==
    /\ req[r].pc = "waitExisting"
    /\ registry[req[r].existing].reachable
    /\ req' = [req EXCEPT ![r] =
                [@ EXCEPT !.pc = "start", !.existingProbe = "ok",
                          !.probedOk = @ \cup {req[r].existing},
                          !.nStart = @ + 1]]
    /\ UNCHANGED <<registry, others>>

\* waitForPort on the existing process resolves.
ExistingProbeReady(r) ==
    /\ req[r].pc = "waitExisting"
    /\ registry[req[r].existing].reachable
    /\ \E h \in UpgradeHeaders :
         req' = [req EXCEPT ![r] =
                  ReturnAndForward(
                    [req[r] EXCEPT !.existingProbe = "ok",
                                   !.probedOk = @ \cup {req[r].existing}],
                    req[r].existing, h)]
    /\ UNCHANGED <<registry, others>>

\* waitForPort on the existing process rejects with err: kill is issued.
ExistingProbeFails(r, err) ==
    /\ req[r].pc = "waitExisting"
    /\ err = "Timeout" => ~registry[req[r].existing].reachable
    /\ req' = [req EXCEPT ![r] =
                [@ EXCEPT !.pc = "kill", !.e = err, !.existingProbe = err,
                          !.nKill = @ + 1, !.killedId = req[r].existing]]
    /\ UNCHANGED <<registry, others>>

\* kill resolves: the process is gone; ensure falls through to start.
KillReturns(r) ==
    /\ req[r].pc = "kill"
    /\ registry' = [registry EXCEPT ![req[r].killedId] =
                     IF IsLiveStatus(@.status)
                     THEN [@ EXCEPT !.status = "killed", !.reachable = FALSE]
                     ELSE @]
    /\ req' = [req EXCEPT ![r] = [@ EXCEPT !.pc = "start", !.nStart = @ + 1]]
    /\ UNCHANGED others

\* Variant of KillThrows without the try/catch around kill: the kill error
\* fails the call.
KillThrowsPropagates(r) ==
    /\ req[r].pc = "kill"
    /\ \E key \in ApiKeys :
         req' = [req EXCEPT ![r] =
                  Fail503([req[r] EXCEPT !.killThrew = TRUE], "KillError", key)]
    /\ UNCHANGED <<registry, others>>

\* kill rejects: logged; ensure falls through to start.
KillThrows(r) ==
    /\ req[r].pc = "kill"
    /\ req' = [req EXCEPT ![r] =
                [@ EXCEPT !.pc = "start", !.nStart = @ + 1,
                          !.killThrew = TRUE]]
    /\ UNCHANGED <<registry, others>>

\* startProcess resolves with a new process; waitForPort is issued on it.
StartReturns(r) ==
    /\ req[r].pc = "start"
    /\ \E st \in {"starting", "running"} :
         /\ registry' = Spawn(registry, StartCommand, st)
         /\ req' = [req EXCEPT ![r] =
                     [@ EXCEPT !.pc = "waitNew",
                               !.process = Len(registry) + 1,
                               !.nProbe = @ + 1,
                               !.probe = ProbeOptions(st)]]
    /\ UNCHANGED others

\* Variant of StartThrows with startProcess inside the try block of the
\* probe: the launch error reaches the catch block that fetches the logs.
StartThrowsThenLogs(r) ==
    /\ req[r].pc = "start"
    /\ req' = [req EXCEPT ![r] =
                [@ EXCEPT !.pc = "logsFailed", !.e = "LaunchError",
                          !.nLogs = @ + 1]]
    /\ UNCHANGED <<registry, others>>

\* startProcess rejects: rethrown, the handler answers 503.
StartThrows(r) ==
    /\ req[r].pc = "start"
    /\ \E key \in ApiKeys :
         req' = [req EXCEPT ![r] = Fail503(req[r], "LaunchError", key)]
    /\ UNCHANGED <<registry, others>>

\* waitForPort on the new process resolves; getLogs is issued.
NewProbeReady(r) ==
    /\ req[r].pc = "waitNew"
    /\ registry[req[r].process].reachable
    /\ req' = [req EXCEPT ![r] =
                [@ EXCEPT !.pc = "logsReady", !.newProbe = "ok",
                          !.probedOk = @ \cup {req[r].process},
                          !.nLogs = @ + 1]]
    /\ UNCHANGED <<registry, others>>

\* Variant of NewProbeFails whose catch block swallows the error: the call
\* returns the process although its probe failed.
NewProbeFailsForwards(r, err) ==
    /\ req[r].pc = "waitNew"
    /\ err = "Timeout" => ~registry[req[r].process].reachable
    /\ \E h \in UpgradeHeaders :
         req' = [req EXCEPT ![r] =
                  ReturnAndForward([req[r] EXCEPT !.e = err, !.newProbe = err],
                                   req[r].process, h)]
    /\ UNCHANGED <<registry, others>>

\* waitForPort on the new process rejects with err; the catch block issues
\* getLogs.
NewProbeFails(r, err) ==
    /\ req[r].pc = "waitNew"
    /\ err = "Timeout" => ~registry[req[r].process].reachable
    /\ req' = [req EXCEPT ![r] =
                [@ EXCEPT !.pc = "logsFailed", !.e = err, !.newProbe = err,
                          !.nLogs = @ + 1]]
    /\ UNCHANGED <<registry, others>>

\* getLogs after a successful probe resolves: ensure returns the process.
ReadyLogsReturn(r) ==
    /\ req[r].pc = "logsReady"
    /\ \E h \in UpgradeHeaders :
         req' = [req EXCEPT ![r] = ReturnAndForward(req[r], req[r].process, h)]
    /\ UNCHANGED <<registry, others>>

\* getLogs after a successful probe rejects: it is inside the try block, so
\* the catch block runs with that error and issues getLogs again.
ReadyLogsThrow(r) ==
    /\ req[r].pc = "logsReady"
    /\ req' = [req EXCEPT ![r] =
                [@ EXCEPT !.pc = "logsFailed", !.e = "LogFetchError",
                          !.nLogs = @ + 1]]
    /\ UNCHANGED <<registry, others>>

\* What getLogs reports as the stderr of the started process.
Stderrs == {"", "heap out of memory"}

\* The message of the error built from the fetched stderr.
StartupFailedMessage(stderr) ==
    <<"Clawdbot gateway failed to start.", "Stderr:",
      IF stderr # "" THEN stderr ELSE "(empty)">>

\* getLogs in the catch block resolves: the startup error is built and
\* thrown inside the inner try, whose catch rethrows e.
FailedLogsReturn(r) ==
    /\ req[r].pc = "logsFailed"
    /\ \E stderr \in Stderrs, key \in ApiKeys :
         req' = [req EXCEPT ![r] =
                  Fail503([req[r] EXCEPT !.built = StartupFailedMessage(stderr)],
                          req[r].e, key)]
    /\ UNCHANGED <<registry, others>>

\* Variant of FailedLogsThrow that retries the start instead of rethrowing.
FailedLogsThrowRetries(r) ==
    /\ req[r].pc = "logsFailed"
    /\ req' = [req EXCEPT ![r] = [@ EXCEPT !.pc = "start", !.nStart = @ + 1]]
    /\ UNCHANGED <<registry, others>>

\* Variant of FailedLogsThrow whose inner catch rethrows the error of the
\* log fetch instead of e.
FailedLogsThrowSecondary(r) ==
    /\ req[r].pc = "logsFailed"
    /\ \E key \in ApiKeys :
         req' = [req EXCEPT ![r] = Fail503(req[r], "LogFetchError", key)]
    /\ UNCHANGED <<registry, others>>

\* getLogs in the catch block rejects: the inner catch rethrows e.
FailedLogsThrow(r) ==
    /\ req[r].pc = "logsFailed"
    /\ \E key \in ApiKeys :
         req' = [req EXCEPT ![r] = Fail503(req[r], req[r].e, key)]
    /\ UNCHANGED <<registry, others>>

\* wsConnect / containerFetch resolves with the backend's response.
ForwardReturns(r) ==
    /\ req[r].pc = "forward"
    /\ req' = [req EXCEPT ![r] = Response(req[r], 200, "none")]
    /\ UNCHANGED <<registry, others>>

\* wsConnect / containerFetch rejects: nothing in the handler catches it,
\* the framework answers 500.
ForwardThrows(r) ==
    /\ req[r].pc = "forward"
    /\ req' = [req EXCEPT ![r] =
                Response([req[r] EXCEPT !.fwdFailed = TRUE], 500, "none")]
    /\ UNCHANGED <<registry, others>>

----------------------------------------------------------------------------
\* The debug sub-router: one step per await of its handlers.  The error
\* field of the response holds the status or message of the JSON body.

\* GET /debug/version: startProcess of the build-info command is awaited.
ArriveVersion(r, method, path, gate) ==
    /\ req[r].pc = "idle"
    /\ Route(method, path, gate) = "version"
    /\ req' = [req EXCEPT ![r] =
                [Dispatched(@, "version", method, path, gate)
                   EXCEPT !.pc = "verStartBuild"]]
    /\ UNCHANGED <<registry, others>>

\* startProcess of the handler resolves: the process is in the registry;
\* the handler sleeps and awaits getLogs of it.
VersionStartReturns(r) ==
    /\ req[r].pc \in {"verStartBuild", "verStartVersion"}
    /\ \E st \in {"starting", "running"} :
         registry' = Spawn(registry,
                           IF req[r].pc = "verStartBuild"
                           THEN BuildInfoCommand ELSE VersionCommand, st)
    /\ req' = [req EXCEPT ![r] =
                [InHandler(@) EXCEPT
                   !.pc = IF req[r].pc = "verStartBuild"
                          THEN "verLogsBuild" ELSE "verLogsVersion",
                   !.process = Len(registry) + 1]]
    /\ UNCHANGED others

\* startProcess of the handler rejects: answered 500.
VersionStartThrows(r) ==
    /\ req[r].pc \in {"verStartBuild", "verStartVersion"}
    /\ req' = [req EXCEPT ![r] =
                Response(req[r], 500, "Failed to get version info")]
    /\ UNCHANGED <<registry, others>>

\* getLogs resolves: after the build info the version command is started,
\* after the version the handler answers 200.
VersionLogsReturn(r) ==
    /\ req[r].pc \in {"verLogsBuild", "verLogsVersion"}
    /\ req' = [req EXCEPT ![r] =
                IF req[r].pc = "verLogsBuild"
                THEN [@ EXCEPT !.pc = "verStartVersion"]
                ELSE Response(@, 200, "none")]
    /\ UNCHANGED <<registry, others>>

\* getLogs rejects: answered 500.
VersionLogsThrow(r) ==
    /\ req[r].pc \in {"verLogsBuild", "verLogsVersion"}
    /\ req' = [req EXCEPT ![r] =
                Response(req[r], 500, "Failed to get version info")]
    /\ UNCHANGED <<registry, others>>

\* GET /debug/processes: listProcesses is awaited.
ArriveProcesses(r, method, path, gate) ==
    /\ req[r].pc = "idle"
    /\ Route(method, path, gate) = "processes"
    /\ req' = [req EXCEPT ![r] =
                [Dispatched(@, "processes", method, path, gate)
                   EXCEPT !.pc = "procList"]]
    /\ UNCHANGED <<registry, others>>

\* listProcesses resolves: the per-process data (with the logs when the
\* query asks for them) is awaited.
ProcessesListReturns(r) ==
    /\ req[r].pc = "procList"
    /\ req' = [req EXCEPT ![r] = [InHandler(@) EXCEPT !.pc = "procData"]]
    /\ UNCHANGED <<registry, others>>

\* listProcesses rejects: answered 500.
ProcessesListThrows(r) ==
    /\ req[r].pc = "procList"
    /\ req' = [req EXCEPT ![r] = Response(req[r], 500, "RegistryUnavailable")]
    /\ UNCHANGED <<registry, others>>

\* The per-process data settles (a getLogs that rejects is caught per
\* process): answered 200.
ProcessesDataSettles(r) ==
    /\ req[r].pc = "procData"
    /\ req' = [req EXCEPT ![r] = Response(req[r], 200, "none")]
    /\ UNCHANGED <<registry, others>>

\* GET /debug/logs: with an id in the query listProcesses is awaited, without
\* one the lookup of the gateway process (id 0: no id in the query).
ArriveLogs(r, method, path, gate) ==
    /\ req[r].pc = "idle"
    /\ Route(method, path, gate) = "logs"
    /\ \E id \in 0..(Len(registry) + 1) :
         req' = [req EXCEPT ![r] =
                  [Dispatched(@, "logs", method, path, gate)
                     EXCEPT !.pc = IF id # 0 THEN "logsList" ELSE "logsFind",
                            !.qid = id]]
    /\ UNCHANGED <<registry, others>>

\* listProcesses resolves: 404 when no process has the id, else getLogs of
\* that process is awaited.
LogsListReturns(r) ==
    /\ req[r].pc = "logsList"
    /\ req' = [req EXCEPT ![r] =
                IF req[r].qid \in DOMAIN registry
                THEN [InHandler(@) EXCEPT !.pc = "logsGet",
                                          !.process = req[r].qid]
                ELSE Response(@, 404, "not_found")]
    /\ UNCHANGED <<registry, others>>

\* listProcesses rejects: answered 500.
LogsListThrows(r) ==
    /\ req[r].pc = "logsList"
    /\ req' = [req EXCEPT ![r] = Response(req[r], 500, "Failed to get logs")]
    /\ UNCHANGED <<registry, others>>

\* The lookup resolves: 200 "no_process" when it gives null, else getLogs of
\* the gateway process is awaited.
LogsFindReturns(r) ==
    /\ req[r].pc = "logsFind"
    /\ LET m == findExistingClawdbotProcess(registry)
       IN  req' = [req EXCEPT ![r] =
                    IF m # 0
                    THEN [InHandler(@) EXCEPT !.pc = "logsGet", !.process = m]
                    ELSE Response(@, 200, "no_process")]
    /\ UNCHANGED <<registry, others>>

\* listProcesses rejects inside the lookup, which returns null: answered
\* 200 "no_process".
LogsFindThrows(r) ==
    /\ req[r].pc = "logsFind"
    /\ req' = [req EXCEPT ![r] = Response(req[r], 200, "no_process")]
    /\ UNCHANGED <<registry, others>>

\* getLogs of the chosen process resolves: answered 200.
LogsGetReturns(r) ==
    /\ req[r].pc = "logsGet"
    /\ req' = [req EXCEPT ![r] = Response(req[r], 200, "none")]
    /\ UNCHANGED <<registry, others>>

\* getLogs of the chosen process rejects: answered 500.
LogsGetThrows(r) ==
    /\ req[r].pc = "logsGet"
    /\ req' = [req EXCEPT ![r] =
                Response(req[r], 500, "Failed to get logs")]
    /\ UNCHANGED <<registry, others>>

----------------------------------------------------------------------------
\* Sandbox steps.

\* A spawned process begins to run; the start script begins with its pkill.
ProcessRuns(p) ==
    /\ p \in DOMAIN registry
    /\ registry[p].status = "starting"
    /\ registry' =
         LET running == [registry EXCEPT ![p].status = "running"]
         IN  IF registry[p].command = StartCommand
             THEN Pkill(running, p) ELSE running
    /\ UNCHANGED <<req, others>>

\* The gateway binds the port (one listener only).  The start script repeats
\* its pkill right before it execs the gateway.
GatewayListens(p) ==
    /\ p \in DOMAIN registry
    /\ MatchesGatewayCommand(registry[p].command)
    /\ registry[p].status = "running"
    /\ ~registry[p].reachable
    /\ IF registry[p].command = StartCommand
       THEN registry' = [Pkill(registry, p) EXCEPT ![p].reachable = TRUE]
       ELSE /\ \A i \in DOMAIN registry : ~registry[i].reachable
            /\ registry' = [registry EXCEPT ![p].reachable = TRUE]
    /\ UNCHANGED <<req, others>>

\* A process ends by itself.
ProcessExits(p) ==
    /\ p \in DOMAIN registry
    /\ MatchesGatewayCommand(registry[p].command)
    /\ IsLiveStatus(registry[p].status)
    /\ registry' = [registry EXCEPT ![p].status = "exited",
                                     ![p].reachable = FALSE]
    /\ UNCHANGED <<req, others>>

ProbeErrors == {"Timeout", "ProbeError"}

\* The worker serving its requests one after the other.
Next ==
    \/ \E r \in Reqs :
         InTurn(r) /\ \E method \in Methods, path \in Paths, gate \in DebugGates :
                        Arrive(r, method, path, gate)
    \/ \E r \in Reqs :
         InTurn(r) /\ \E method \in Methods, path \in Paths, gate \in DebugGates :
                        ArriveHealth(r, method, path, gate)
    \/ \E r \in Reqs :
         InTurn(r) /\ \E method \in Methods, path \in Paths, gate \in DebugGates :
                        ArriveDisabled(r, method, path, gate)
    \/ \E r \in Reqs :
         InTurn(r) /\ \E method \in Methods, path \in Paths, gate \in DebugGates :
                        ArriveVersion(r, method, path, gate)
    \/ \E r \in Reqs :
         InTurn(r) /\ \E method \in Methods, path \in Paths, gate \in DebugGates :
                        ArriveProcesses(r, method, path, gate)
    \/ \E r \in Reqs :
         InTurn(r) /\ \E method \in Methods, path \in Paths, gate \in DebugGates :
                        ArriveLogs(r, method, path, gate)
    \/ \E r \in Reqs : ListReturns(r)
    \/ \E r \in Reqs : ListThrows(r)
    \/ \E r \in Reqs : ExistingProbeReady(r)
    \/ \E r \in Reqs : \E err \in ProbeErrors : ExistingProbeFails(r, err)
    \/ \E r \in Reqs : KillReturns(r)
    \/ \E r \in Reqs : KillThrows(r)
    \/ \E r \in Reqs : StartReturns(r)
    \/ \E r \in Reqs : StartThrows(r)
    \/ \E r \in Reqs : NewProbeReady(r)
    \/ \E r \in Reqs : \E err \in ProbeErrors : NewProbeFails(r, err)
    \/ \E r \in Reqs : ReadyLogsReturn(r)
    \/ \E r \in Reqs : ReadyLogsThrow(r)
    \/ \E r \in Reqs : FailedLogsReturn(r)
    \/ \E r \in Reqs : FailedLogsThrow(r)
    \/ \E r \in Reqs : ForwardReturns(r)
    \/ \E r \in Reqs : ForwardThrows(r)
    \/ \E r \in Reqs : VersionStartReturns(r)
    \/ \E r \in Reqs : VersionStartThrows(r)
    \/ \E r \in Reqs : VersionLogsReturn(r)
    \/ \E r \in Reqs : VersionLogsThrow(r)
    \/ \E r \in Reqs : ProcessesListReturns(r)
    \/ \E r \in Reqs : ProcessesListThrows(r)
    \/ \E r \in Reqs : ProcessesDataSettles(r)
    \/ \E r \in Reqs : LogsListReturns(r)
    \/ \E r \in Reqs : LogsListThrows(r)
    \/ \E r \in Reqs : LogsFindReturns(r)
    \/ \E r \in Reqs : LogsFindThrows(r)
    \/ \E r \in Reqs : LogsGetReturns(r)
    \/ \E r \in Reqs : LogsGetThrows(r)
    \/ \E p \in DOMAIN registry : ProcessRuns(p)
    \/ \E p \in DOMAIN registry : GatewayListens(p)
    \/ \E p \in DOMAIN registry : ProcessExits(p)

\* Requests to the backend that overlap: each may arrive while the others
\* are being handled.
RaceNext ==
    \/ \E r \in Reqs : Arrive(r, "GET", RootPath, "undefined")
    \/ \E r \in Reqs : ListReturns(r)
    \/ \E r \in Reqs : ListThrows(r)
    \/ \E r \in Reqs : ExistingProbeReady(r)
    \/ \E r \in Reqs : \E err \in ProbeErrors : ExistingProbeFails(r, err)
    \/ \E r \in Reqs : KillReturns(r)
    \/ \E r \in Reqs : KillThrows(r)
    \/ \E r \in Reqs : StartReturns(r)
    \/ \E r \in Reqs : StartThrows(r)
    \/ \E r \in Reqs : NewProbeReady(r)
    \/ \E r \in Reqs : \E err \in ProbeErrors : NewProbeFails(r, err)
    \/ \E r \in Reqs : ReadyLogsReturn(r)
    \/ \E r \in Reqs : ReadyLogsThrow(r)
    \/ \E r \in Reqs : FailedLogsReturn(r)
    \/ \E r \in Reqs : FailedLogsThrow(r)
    \/ \E r \in Reqs : ForwardReturns(r)
    \/ \E r \in Reqs : ForwardThrows(r)
    \/ \E p \in DOMAIN registry : ProcessRuns(p)
    \/ \E p \in DOMAIN registry : GatewayListens(p)
    \/ \E p \in DOMAIN registry : ProcessExits(p)

Spec == Init /\ [][Next]_vars

RaceSpec == InitRace /\ [][RaceNext]_vars

----------------------------------------------------------------------------
\* The worker's helper functions, applied to inputs of their own.

\* The names buildEnvVars copies, and the bindings of the worker (the
\* copied names and one that is not copied).
RecognizedNames ==
    { "ANTHROPIC_API_KEY", "OPENAI_API_KEY", "CLAWDBOT_GATEWAY_TOKEN",
      "CLAWDBOT_DEV_MODE", "CLAWDBOT_BIND_MODE", "TELEGRAM_BOT_TOKEN",
      "TELEGRAM_DM_POLICY", "DISCORD_BOT_TOKEN", "DISCORD_DM_POLICY",
      "SLACK_BOT_TOKEN", "SLACK_APP_TOKEN" }
EnvNames == RecognizedNames \cup {"DEBUG_ROUTES_ENABLED"}

\* Environments: every binding is "undefined" but at most MaxBindings of
\* them, which are the empty string or a value.
Envs ==
    UNION { { [n \in EnvNames |-> IF n \in S THEN f[n] ELSE "undefined"] :
                f \in [S -> {"", "value"}] } :
            S \in { T \in SUBSET EnvNames : Cardinality(T) <= MaxBindings } }

\* buildEnvVars: the recognized names whose binding is truthy, with their
\* values.
buildEnvVars(env) ==
    [n \in { k \in RecognizedNames : Truthy(env[k]) } |-> env[n]]

\* Variant of StartOptions that always passes the mapping.
StartOptionsAlways(envVars) == [passed |-> TRUE, env |-> envVars]

\* The env option of startProcess: envVars when it has a key, else
\* undefined (passed is FALSE).
StartOptions(envVars) ==
    IF DOMAIN envVars # {}
    THEN [passed |-> TRUE, env |-> envVars]
    ELSE [passed |-> FALSE, env |-> <<>>]

\* Process lists of at most MaxProcs entries.
ProcLists ==
    UNION { { [i \in 1..n |-> Proc(i, f[i][1], f[i][2], FALSE)] :
                f \in [1..n -> {StartCommand, GatewayCommand, VersionCommand}
                                \X {"starting", "running", "exited",
                                    "failed"}] } :
            n \in 0..MaxProcs }

InitFn ==
    /\ registry = <<>> /\ req = <<>>
    /\ script = NoScript /\ sync = NoSync
    /\ fn \in { [name |-> "buildEnvVars", input |-> e, output |-> <<>>,
                  done |-> FALSE] : e \in Envs }
           \cup { [name |-> "findExistingClawdbotProcess", input |-> l,
                    output |-> 0, done |-> FALSE] : l \in ProcLists }

\* ensure builds the env option of startProcess.
ApplyBuildEnvVars ==
    /\ fn.name = "buildEnvVars" /\ ~fn.done
    /\ fn' = [fn EXCEPT !.output = StartOptions(buildEnvVars(fn.input)),
                        !.done = TRUE]
    /\ UNCHANGED <<registry, req, script, sync>>

\* The lookup runs on a process list.
ApplyFindExisting ==
    /\ fn.name = "findExistingClawdbotProcess" /\ ~fn.done
    /\ fn' = [fn EXCEPT !.output = findExistingClawdbotProcess(fn.input),
                        !.done = TRUE]
    /\ UNCHANGED <<registry, req, script, sync>>

FnNext ==
    \/ ApplyBuildEnvVars
    \/ ApplyFindExisting

FnSpec == InitFn /\ [][FnNext]_vars

----------------------------------------------------------------------------
\* The start script: onboard, config patch, gateway launch.

\* JSON objects are functions from keys to values; a key that is absent is
\* not in the domain.
Obj == [k \in {} |-> 0]
Has(o, k) == k \in DOMAIN o
Put(o, k, v) == [x \in DOMAIN o \cup {k} |-> IF x = k THEN v ELSE o[x]]
Del(o, k) == [x \in DOMAIN o \ {k} |-> o[x]]
\* o[k] || {}
OrObj(o, k) == IF Has(o, k) THEN o[k] ELSE Obj

\* The script's environment: a binding is "undefined" when it is unset.
TokenEnvs ==
    { ("OPENCLAW_GATEWAY_TOKEN" :> o) @@ ("MOLTBOT_GATEWAY_TOKEN" :> m) :
        o \in {"undefined", "", "tok-o"}, m \in {"undefined", "tok-m"} }
TelegramEnvs ==
    { ("TELEGRAM_BOT_TOKEN" :> t[1]) @@ ("TELEGRAM_DM_POLICY" :> t[2])
      @@ ("TELEGRAM_DM_ALLOW_FROM" :> t[3]) :
        t \in { <<"undefined", "undefined", "undefined">>,
                <<"tg-token", "open", "undefined">>,
                <<"tg-token", "undefined", "1,2">> } }
DiscordEnvs ==
    { ("DISCORD_BOT_TOKEN" :> t[1]) @@ ("DISCORD_DM_POLICY" :> t[2]) :
        t \in { <<"undefined", "undefined">>, <<"dc-token", "open">> } }
SlackEnvs ==
    { ("SLACK_BOT_TOKEN" :> t[1]) @@ ("SLACK_APP_TOKEN" :> t[2]) :
        t \in { <<"undefined", "undefined">>, <<"xoxb", "undefined">>,
                <<"xoxb", "xapp">> } }
GeminiEnvs ==
    { ("GEMINI_API_KEY" :> t[1]) @@ ("GEMINI_MODEL" :> t[2]) :
        t \in { <<"undefined", "undefined">>, <<"g-key", "undefined">>,
                <<"g-key", "gemini-2.0-flash">> } }
AiGatewayEnvs ==
    { ("CF_AI_GATEWAY_MODEL" :> t[1]) @@ ("CF_AI_GATEWAY_ACCOUNT_ID" :> t[2])
      @@ ("CF_AI_GATEWAY_GATEWAY_ID" :> t[3])
      @@ ("CLOUDFLARE_AI_GATEWAY_API_KEY" :> t[4]) @@ ("CF_ACCOUNT_ID" :> t[5]) :
        t \in { <<"undefined", "undefined", "undefined", "undefined", "undefined">>,
                <<"anthropic/claude-sonnet-4-5", "acct", "gw", "cf-key", "undefined">>,
                <<"workers-ai/@cf/meta/llama", "undefined", "undefined", "cf-key", "acct">> } }
DevModeEnvs == { "OPENCLAW_DEV_MODE" :> d : d \in {"undefined", "true"} }

ScriptEnvs ==
    { tok @@ tg @@ dc @@ sl @@ ge @@ ai @@ dev :
        tok \in TokenEnvs, tg \in TelegramEnvs, dc \in DiscordEnvs,
        sl \in SlackEnvs, ge \in GeminiEnvs, ai \in AiGatewayEnvs,
        dev \in DevModeEnvs }

\* bash [ -n "$X" ] and the patch's truthiness of process.env.X.
IsSet(env, name) == Truthy(env[name])

\* a || b on two bindings.
OrElse(a, b) == IF Truthy(a) THEN a ELSE b

\* raw.substring(0, raw.indexOf('/')) and raw.substring(indexOf + 1).
GwProvider(raw) ==
    CASE raw = "anthropic/claude-sonnet-4-5" -> "anthropic"
      [] raw = "workers-ai/@cf/meta/llama" -> "workers-ai"
      [] OTHER -> ""
ModelId(raw) ==
    CASE raw = "anthropic/claude-sonnet-4-5" -> "claude-sonnet-4-5"
      [] raw = "workers-ai/@cf/meta/llama" -> "@cf/meta/llama"
      [] OTHER -> raw

\* 'cf-ai-gw-' + gwProvider
ProviderName(gwProvider) ==
    CASE gwProvider = "anthropic" -> "cf-ai-gw-anthropic"
      [] gwProvider = "workers-ai" -> "cf-ai-gw-workers-ai"
      [] OTHER -> "cf-ai-gw-"

\* s.split(',')
Split(s) == IF s = "1,2" THEN <<"1", "2">> ELSE <<s>>

\* The configuration an onboard run or the Gemini manual config writes.
OnboardConfig ==
    "gateway" :> [port |-> 18789, mode |-> "local", bind |-> "lan"]

\* Configurations a backup or an earlier version can have left behind.
StaleConfigs ==
    { Obj,
      OnboardConfig,
      "gateway" :> [port |-> 3000, trustedProxies |-> <<"10.1.0.0", "10.0.0.1">>,
                    auth |-> [token |-> "stale", mode |-> "token"],
                    controlUi |-> [allowInsecureAuth |-> FALSE]],
      ("gateway" :> [port |-> 18789, auth |-> Obj])
      @@ ("channels" :> [telegram |-> [botToken |-> "old", groupPolicy |-> "open"],
                         discord |-> [token |-> "old", dm |-> [policy |-> "open",
                                      allowFrom |-> <<"*">>, stale |-> "x"]]]),
      ("models" :> [providers |-> ("google-ai-studio" :>
                       [api |-> "google-generative-ai", apiKey |-> "old"])])
      @@ ("agents" :> [defaults |-> [model |-> [primary |-> <<"old">>,
                                                 fallbacks |-> "other"]]]) }

\* The configuration file before the script runs.
StartFiles ==
    { [state |-> "missing", json |-> Obj], [state |-> "malformed", json |-> Obj] }
    \cup { [state |-> "json", json |-> c] : c \in StaleConfigs }

\* Variant of PatchGateway that appends the trusted proxy.
PatchGatewayAppend(config) ==
    LET c == Put(Put(config, "gateway", OrObj(config, "gateway")),
                 "channels", OrObj(config, "channels"))
        g == c["gateway"]
        proxies == IF Has(g, "trustedProxies") THEN g["trustedProxies"] ELSE <<>>
        g1 == Put(Put(Put(g, "port", 18789), "mode", "local"),
                  "trustedProxies", Append(proxies, "10.1.0.0"))
        g2 == Put(g1, "controlUi",
                  Put(OrObj(g1, "controlUi"), "allowInsecureAuth", TRUE))
    IN  Put(c, "gateway", g2)

\* gateway and channels exist; port, mode, trustedProxies and
\* controlUi.allowInsecureAuth are assigned.
PatchGateway(config) ==
    LET c == Put(Put(config, "gateway", OrObj(config, "gateway")),
                 "channels", OrObj(config, "channels"))
        g == c["gateway"]
        g1 == Put(Put(Put(g, "port", 18789), "mode", "local"),
                  "trustedProxies", <<"10.1.0.0">>)
        g2 == Put(g1, "controlUi",
                  Put(OrObj(g1, "controlUi"), "allowInsecureAuth", TRUE))
    IN  Put(c, "gateway", g2)

\* gwToken
GwToken(env) == OrElse(env["OPENCLAW_GATEWAY_TOKEN"], env["MOLTBOT_GATEWAY_TOKEN"])

\* gateway.auth.token is set from the environment, or gateway.auth is
\* deleted.
PatchAuth(config, env) ==
    LET g == config["gateway"]
    IN  IF Truthy(GwToken(env))
        THEN Put(config, "gateway",
                 Put(g, "auth", Put(OrObj(g, "auth"), "token", GwToken(env))))
        ELSE IF Has(g, "auth") THEN Put(config, "gateway", Del(g, "auth"))
             ELSE config

PatchDevMode(config, env) ==
    IF env["OPENCLAW_DEV_MODE"] = "true"
    THEN LET g == config["gateway"]
         IN  Put(config, "gateway",
                 Put(g, "controlUi",
                     Put(OrObj(g, "controlUi"), "allowInsecureAuth", TRUE)))
    ELSE config

\* baseUrl of the AI Gateway provider, <<>> when it is undefined.
AiGatewayBaseUrl(env) ==
    LET gwProvider == GwProvider(env["CF_AI_GATEWAY_MODEL"])
    IN  IF IsSet(env, "CF_AI_GATEWAY_ACCOUNT_ID") /\ IsSet(env, "CF_AI_GATEWAY_GATEWAY_ID")
        THEN <<"https://gateway.ai.cloudflare.com/v1/",
               env["CF_AI_GATEWAY_ACCOUNT_ID"], "/",
               env["CF_AI_GATEWAY_GATEWAY_ID"], "/", gwProvider>>
             \o (IF gwProvider = "workers-ai" THEN <<"/v1">> ELSE <<>>)
             \o (IF gwProvider = "google-ai-studio" THEN <<"/v1beta/openai">> ELSE <<>>)
        ELSE IF gwProvider = "workers-ai" /\ IsSet(env, "CF_ACCOUNT_ID")
        THEN <<"https://api.cloudflare.com/client/v4/accounts/",
               env["CF_ACCOUNT_ID"], "/ai/v1">>
        ELSE <<>>

\* config.agents.defaults with its model replaced or its primary assigned.
WithModel(config, model) ==
    LET agents == OrObj(config, "agents")
        defaults == OrObj(agents, "defaults")
    IN  Put(config, "agents", Put(agents, "defaults", Put(defaults, "model", model)))

WithProvider(config, name, provider) ==
    LET models == OrObj(config, "models")
        providers == OrObj(models, "providers")
    IN  Put(config, "models", Put(models, "providers", Put(providers, name, provider)))

PatchModelOverride(config, env) ==
    LET raw == env["CF_AI_GATEWAY_MODEL"]
        gwProvider == GwProvider(raw)
        modelId == ModelId(raw)
        baseUrl == AiGatewayBaseUrl(env)
        api == IF gwProvider = "anthropic" THEN "anthropic-messages"
               ELSE IF gwProvider = "google-ai-studio" THEN "google-generative-ai"
               ELSE "openai-completions"
        providerName == ProviderName(gwProvider)
    IN  IF IsSet(env, "CF_AI_GATEWAY_MODEL") /\ baseUrl # <<>>
           /\ IsSet(env, "CLOUDFLARE_AI_GATEWAY_API_KEY")
        THEN WithModel(
                 WithProvider(config, providerName,
                     [baseUrl |-> baseUrl,
                      apiKey |-> env["CLOUDFLARE_AI_GATEWAY_API_KEY"],
                      api |-> api,
                      models |-> << [id |-> modelId, name |-> modelId,
                                     contextWindow |-> 1048576,
                                     maxTokens |-> 8192] >>]),
                 [primary |-> <<providerName, "/", modelId>>])
        ELSE config

PatchTelegram(config, env) ==
    LET dmPolicy == OrElse(env["TELEGRAM_DM_POLICY"], "pairing")
        base == [botToken |-> env["TELEGRAM_BOT_TOKEN"], enabled |-> TRUE,
                 dmPolicy |-> dmPolicy]
        telegram == IF IsSet(env, "TELEGRAM_DM_ALLOW_FROM")
                    THEN Put(base, "allowFrom", Split(env["TELEGRAM_DM_ALLOW_FROM"]))
                    ELSE IF dmPolicy = "open" THEN Put(base, "allowFrom", <<"*">>)
                    ELSE base
    IN  IF IsSet(env, "TELEGRAM_BOT_TOKEN")
        THEN Put(config, "channels", Put(config["channels"], "telegram", telegram))
        ELSE config

PatchDiscord(config, env) ==
    LET dmPolicy == OrElse(env["DISCORD_DM_POLICY"], "pairing")
        dm == IF dmPolicy = "open"
              THEN [policy |-> dmPolicy, allowFrom |-> <<"*">>]
              ELSE [policy |-> dmPolicy]
    IN  IF IsSet(env, "DISCORD_BOT_TOKEN")
        THEN Put(config, "channels",
                 Put(config["channels"], "discord",
                     [token |-> env["DISCORD_BOT_TOKEN"], enabled |-> TRUE,
                      dm |-> dm]))
        ELSE config

PatchSlack(config, env) ==
    IF IsSet(env, "SLACK_BOT_TOKEN") /\ IsSet(env, "SLACK_APP_TOKEN")
    THEN Put(config, "channels",
             Put(config["channels"], "slack",
                 [botToken |-> env["SLACK_BOT_TOKEN"],
                  appToken |-> env["SLACK_APP_TOKEN"], enabled |-> TRUE]))
    ELSE config

PatchGemini(config, env) ==
    LET modelId == OrElse(env["GEMINI_MODEL"], "gemini-1.5-flash-latest")
        c == WithProvider(config, "google-ai-studio",
                 [api |-> "google-generative-ai",
                  apiKey |-> env["GEMINI_API_KEY"],
                  baseUrl |-> "https://generativelanguage.googleapis.com",
                  models |-> << [id |-> modelId, name |-> modelId,
                                 contextWindow |-> 2097152,
                                 maxTokens |-> 8192] >>])
        model == OrObj(OrObj(OrObj(c, "agents"), "defaults"), "model")
    IN  IF IsSet(env, "GEMINI_API_KEY")
        THEN WithModel(c, Put(model, "primary", <<"google-ai-studio/", modelId>>))
        ELSE config

\* A google-ai-studio provider without a baseUrl gets one.
PatchDefensive(config) ==
    IF /\ Has(config, "models") /\ Has(config["models"], "providers")
       /\ Has(config["models"]["providers"], "google-ai-studio")
       /\ ~Has(config["models"]["providers"]["google-ai-studio"], "baseUrl")
    THEN WithProvider(config, "google-ai-studio",
             Put(config["models"]["providers"]["google-ai-studio"], "baseUrl",
                 "https://generativelanguage.googleapis.com"))
    ELSE config

\* The node program of the patch, from the parsed configuration to the
\* configuration it writes.
ConfigPatch(config, env) ==
    PatchDefensive(
      PatchGemini(
        PatchSlack(
          PatchDiscord(
            PatchTelegram(
              PatchModelOverride(
                PatchDevMode(
                  PatchAuth(PatchGateway(config), env), env), env), env),
            env), env), env))

\* JSON.parse of the file in the patch's try block: {} when it throws.
ParseConfig(file) == IF file.state = "json" THEN file.json ELSE Obj

\* The token arguments of the exec of the gateway.
LaunchArgs(env) ==
    IF IsSet(env, "OPENCLAW_GATEWAY_TOKEN")
    THEN <<"--token", env["OPENCLAW_GATEWAY_TOKEN"]>>
    ELSE <<>>

InitScript ==
    /\ registry = <<>> /\ req = <<>>
    /\ fn = NoCall /\ sync = NoSync
    /\ script \in { [pc |-> "onboard", env |-> e, file |-> f, args |-> <<>>,
                      run |-> 1, patched |-> 0] :
                        e \in ScriptEnvs, f \in StartFiles }

\* No configuration file: the Gemini manual config or openclaw onboard
\* writes one.
Onboard ==
    /\ script.pc = "onboard"
    /\ script.file.state = "missing"
    /\ script' = [script EXCEPT !.pc = "patch",
                     !.file = [state |-> "json", json |-> OnboardConfig]]
    /\ UNCHANGED <<registry, req, fn, sync>>

\* A configuration file exists: onboard is skipped.
SkipOnboard ==
    /\ script.pc = "onboard"
    /\ script.file.state # "missing"
    /\ script' = [script EXCEPT !.pc = "patch"]
    /\ UNCHANGED <<registry, req, fn, sync>>

\* The node program reads, patches and writes the configuration file.
Patch ==
    /\ script.pc = "patch"
    /\ script' = [script EXCEPT !.pc = "launch",
                     !.file = [state |-> "json",
                               json |-> ConfigPatch(ParseConfig(script.file),
                                                    script.env)],
                     !.patched = @ + 1]
    /\ UNCHANGED <<registry, req, fn, sync>>

\* exec openclaw gateway, with --token or without.
Launch ==
    /\ script.pc = "launch"
    /\ script' = [script EXCEPT !.pc = "gateway", !.args = LaunchArgs(script.env)]
    /\ UNCHANGED <<registry, req, fn, sync>>

\* The worker starts the script again in the same container.
RunAgain ==
    /\ script.pc = "gateway"
    /\ script.run < MaxRuns
    /\ script' = [script EXCEPT !.pc = "onboard", !.run = @ + 1, !.args = <<>>]
    /\ UNCHANGED <<registry, req, fn, sync>>

ScriptNext ==
    \/ Onboard
    \/ SkipOnboard
    \/ Patch
    \/ Launch
    \/ RunAgain

ScriptSpec == InitScript /\ [][ScriptNext]_vars

----------------------------------------------------------------------------
\* The start script's background sync loop and the gateway writing files.

\* One file of the config directory, one of the workspace, one skill.
ConfigFiles == {"openclaw.json"}
WorkspaceFiles == {"MEMORY.md"}
SkillFiles == {"skills/SKILL.md"}
SyncFiles == ConfigFiles \cup WorkspaceFiles \cup SkillFiles

\* r2_configured
R2Configured(r2) == r2

\* find -newer "$MARKER": the files modified after the marker.
Newer(mtime, marker) == { f \in SyncFiles : mtime[f] > marker }

\* rclone sync of a directory: the remote copies become the local ones.
RcloneSync(remote, local, dir) ==
    [f \in SyncFiles |-> IF f \in dir THEN local[f] ELSE remote[f]]

\* Files carry the number of their last write as content, and the time of
\* that write; the remote copies start as restored.
InitSync ==
    /\ registry = <<>> /\ req = <<>>
    /\ fn = NoCall /\ script = NoScript
    /\ \E r2 \in BOOLEAN :
         sync = [pc |-> "start", r2 |-> r2, clock |-> 1, marker |-> 0,
                 mtime |-> [f \in SyncFiles |-> 0],
                 local |-> [f \in SyncFiles |-> 0],
                 remote |-> [f \in SyncFiles |-> 0],
                 changed |-> {}, writes |-> 0]

\* R2 is configured: the loop starts and touches the marker.
StartSyncLoop ==
    /\ sync.pc = "start" /\ R2Configured(sync.r2)
    /\ sync' = [sync EXCEPT !.pc = "sleep", !.marker = sync.clock,
                            !.clock = @ + 1]
    /\ UNCHANGED <<registry, req, fn, script>>

\* R2 is not configured: no loop.
NoSyncLoop ==
    /\ sync.pc = "start" /\ ~R2Configured(sync.r2)
    /\ sync' = [sync EXCEPT !.pc = "off"]
    /\ UNCHANGED <<registry, req, fn, script>>

\* sleep 30 ends.
Sleep ==
    /\ sync.pc = "sleep"
    /\ sync' = [sync EXCEPT !.pc = "scan"]
    /\ UNCHANGED <<registry, req, fn, script>>

\* The two finds write the changed files.
Scan ==
    /\ sync.pc = "scan"
    /\ sync' = [sync EXCEPT !.pc = "count",
                            !.changed = Newer(sync.mtime, sync.marker)]
    /\ UNCHANGED <<registry, req, fn, script>>

\* COUNT is 0: back to sleep.
NothingChanged ==
    /\ sync.pc = "count" /\ sync.changed = {}
    /\ sync' = [sync EXCEPT !.pc = "sleep"]
    /\ UNCHANGED <<registry, req, fn, script>>

\* COUNT > 0: rclone sync of the config directory.
SyncConfig ==
    /\ sync.pc = "count" /\ sync.changed # {}
    /\ sync' = [sync EXCEPT !.pc = "workspace",
                    !.remote = RcloneSync(sync.remote, sync.local, ConfigFiles)]
    /\ UNCHANGED <<registry, req, fn, script>>

SyncWorkspace ==
    /\ sync.pc = "workspace"
    /\ sync' = [sync EXCEPT !.pc = "skills",
                    !.remote = RcloneSync(sync.remote, sync.local, WorkspaceFiles)]
    /\ UNCHANGED <<registry, req, fn, script>>

SyncSkills ==
    /\ sync.pc = "skills"
    /\ sync' = [sync EXCEPT !.pc = "touch",
                    !.remote = RcloneSync(sync.remote, sync.local, SkillFiles)]
    /\ UNCHANGED <<registry, req, fn, script>>

\* An rclone sync exits non-zero: under set -e the loop's subshell exits.
SyncFails ==
    /\ \/ sync.pc = "count" /\ sync.changed # {}
       \/ sync.pc \in {"workspace", "skills"}
    /\ sync' = [sync EXCEPT !.pc = "exited"]
    /\ UNCHANGED <<registry, req, fn, script>>

\* touch "$MARKER"
TouchMarker ==
    /\ sync.pc = "touch"
    /\ sync' = [sync EXCEPT !.pc = "sleep", !.marker = sync.clock,
                            !.clock = @ + 1, !.changed = {}]
    /\ UNCHANGED <<registry, req, fn, script>>

\* The gateway writes a file.
GatewayWrites(f) ==
    /\ sync.pc # "start"
    /\ sync.writes < MaxWrites
    /\ sync' = [sync EXCEPT !.local[f] = @ + 1, !.mtime[f] = sync.clock,
                            !.clock = @ + 1, !.writes = @ + 1]
    /\ UNCHANGED <<registry, req, fn, script>>

SyncNext ==
    \/ StartSyncLoop
    \/ NoSyncLoop
    \/ Sleep
    \/ Scan
    \/ NothingChanged
    \/ SyncConfig
    \/ SyncWorkspace
    \/ SyncSkills
    \/ SyncFails
    \/ TouchMarker
    \/ \E f \in SyncFiles : GatewayWrites(f)

SyncSpec == InitSync /\ [][SyncNext]_vars

----------------------------------------------------------------------------
\* Properties.

\* C1: a request is forwarded (wsConnect or containerFetch) only after the
\* ensure call of that same request returned a process on which a readiness
\* probe succeeded during that call.
C1_ForwardOnlyAfterProbe ==
    \A r \in Reqs :
        req[r].fwd # "none" =>
            /\ req[r].outcome = "returned"
            /\ req[r].pc \in {"forward", "done"}
            /\ req[r].pc = "forward" =>
                   req[r].ret # 0 /\ req[r].ret \in req[r].probedOk

\* A request whose forward has just been issued.
C1_Witness ==
    \E r \in Reqs : req[r].pc = "forward" /\ req[r].fwd # "none"

\* C2: ensure calls that begin while the registry holds no gateway process
\* all return a reference to the same process.
C2_CallsShareOneProcess ==
    \A r1, r2 \in Reqs :
        ( /\ req[r1].sawNoGateway /\ req[r1].outcome = "returned"
          /\ req[r2].sawNoGateway /\ req[r2].outcome = "returned"
          /\ req[r1].pc = "forward" /\ req[r2].pc = "forward" )
        => req[r1].ret = req[r2].ret

\* C3: at most one process matching the gateway command line is starting or
\* running in the registry.
C3_AtMostOneLiveGateway ==
    Cardinality(LiveGateways(registry)) <= 1

\* C4: when the probe of the existing process timed out, the call kills that
\* process, starts one replacement and returns only the probed replacement;
\* when the replacement's probe times out as well it fails with
\* GatewayStartupFailed.
C4_RestartStuck ==
    /\ [](\A r \in Reqs :
            (req[r].existingProbe = "Timeout" /\ req[r].pc \notin {"kill"}) =>
                /\ req[r].nKill = 1 /\ req[r].killedId = req[r].existing
                /\ req[r].nStart = 1
                /\ req[r].outcome = "returned" =>
                       /\ req[r].ret = req[r].process
                       /\ req[r].ret # req[r].existing
                       /\ req[r].ret \in req[r].probedOk)
    /\ [][\A r \in Reqs :
            ( /\ req[r].existingProbe = "Timeout"
              /\ req[r].newProbe = "Timeout"
              /\ req[r].pc = "logsFailed" /\ req'[r].pc = "done" )
            => /\ req'[r].outcome = "threw"
               /\ req'[r].error = "GatewayStartupFailed"]_vars

\* C5: a kill is issued only against the existing process of the call, and
\* only after the probe against it has timed out in the same call.
C5_KillOnlyAfterTimeout ==
    \A r \in Reqs :
        req[r].nKill > 0 =>
            /\ req[r].existing # 0
            /\ req[r].killedId = req[r].existing
            /\ req[r].existingProbe = "Timeout"

\* C6: when the registry returns no matching process the call issues no kill
\* and exactly one start, and once the probe of the started process has
\* succeeded the call returns that process.
C6_StartFresh ==
    /\ [](\A r \in Reqs :
            (req[r].nList = 1 /\ ~req[r].listThrew /\ req[r].existing = 0
               /\ req[r].pc \notin {"find"}) =>
                /\ req[r].nKill = 0
                /\ req[r].nStart = 1
                /\ req[r].outcome = "returned" => req[r].ret = req[r].process)
    /\ [][\A r \in Reqs :
            ( /\ req[r].nList = 1 /\ ~req[r].listThrew /\ req[r].existing = 0
              /\ req[r].newProbe = "ok"
              /\ req'[r].pc = "done" /\ req[r].pc # "done" )
            => req'[r].outcome = "returned"]_vars

\* C7: when the probe of the existing process succeeds the call returns that
\* process, issues no start and no kill, and leaves the registry unchanged.
C7_ReuseExisting ==
    /\ [](\A r \in Reqs :
            req[r].existingProbe = "ok" =>
                /\ req[r].pc = "forward" /\ req[r].outcome = "returned"
                /\ req[r].ret = req[r].existing /\ req[r].existing # 0
                /\ req[r].nStart = 0 /\ req[r].nKill = 0
                /\ req[r].process = 0)
    /\ [][\A r \in Reqs :
            (req[r].pc = "waitExisting" /\ req'[r].pc = "forward")
            => registry' = registry /\ req'[r].existingProbe = "ok"]_vars

\* A call that returned the existing process after its probe succeeded.
C7_Witness ==
    \E r \in Reqs :
        /\ req[r].existingProbe = "ok" /\ req[r].pc = "forward"
        /\ req[r].ret = req[r].existing

\* Position of a label in the handler.
Rank(pc) ==
    CASE pc = "idle" -> 0
      [] pc = "find" -> 1
      [] pc = "waitExisting" -> 2
      [] pc = "kill" -> 3
      [] pc = "start" -> 4
      [] pc = "waitNew" -> 5
      [] pc = "logsReady" -> 6
      [] pc = "logsFailed" -> 7
      [] pc = "forward" -> 8
      [] pc = "done" -> 9
      [] pc \in {"verStartBuild", "procList", "logsList", "logsFind"} -> 1
      [] pc \in {"verLogsBuild", "procData", "logsGet"} -> 2
      [] pc = "verStartVersion" -> 3
      [] pc = "verLogsVersion" -> 4

\* Some step of request r.
Step(r) ==
    \/ ListReturns(r) \/ ListThrows(r)
    \/ ExistingProbeReady(r)
    \/ \E err \in ProbeErrors : ExistingProbeFails(r, err)
    \/ KillReturns(r) \/ KillThrows(r)
    \/ StartReturns(r) \/ StartThrows(r)
    \/ NewProbeReady(r)
    \/ \E err \in ProbeErrors : NewProbeFails(r, err)
    \/ ReadyLogsReturn(r) \/ ReadyLogsThrow(r)
    \/ FailedLogsReturn(r) \/ FailedLogsThrow(r)
    \/ ForwardReturns(r) \/ ForwardThrows(r)
    \/ VersionStartReturns(r) \/ VersionStartThrows(r)
    \/ VersionLogsReturn(r) \/ VersionLogsThrow(r)
    \/ ProcessesListReturns(r) \/ ProcessesListThrows(r)
    \/ ProcessesDataSettles(r)
    \/ LogsListReturns(r) \/ LogsListThrows(r)
    \/ LogsFindReturns(r) \/ LogsFindThrows(r)
    \/ LogsGetReturns(r) \/ LogsGetThrows(r)

\* C8: a call makes at most one registry query, two probes, one kill and one
\* start; it always moves forward through the handler and can always take its
\* next step until it is done; after the started process's probe failed the
\* call only fetches the logs and fails, with no further start or probe.
C8_BoundedSingleRetry ==
    /\ [](\A r \in Reqs :
            /\ req[r].nList <= 1 /\ req[r].nProbe <= 2
            /\ req[r].nKill <= 1 /\ req[r].nStart <= 1
            /\ req[r].pc \notin {"idle", "done"} => ENABLED Step(r))
    /\ [][\A r \in Reqs :
            /\ req'[r] # req[r] => Rank(req'[r].pc) > Rank(req[r].pc)
            /\ (req[r].pc = "logsFailed" /\ req'[r] # req[r]) =>
                   /\ req'[r].pc = "done"
                   /\ req'[r].outcome = "threw"
                   /\ req'[r].status = 503
                   /\ req'[r].fwd = "none"
                   /\ registry' = registry]_vars

\* A call that failed after the probe of the process it started failed.
C8_Witness ==
    \E r \in Reqs :
        /\ req[r].pc = "done" /\ req[r].outcome = "threw"
        /\ req[r].error \in ProbeErrors

\* C9: a registry query that raises is not propagated: the call goes on as
\* if no gateway process had been found and issues the start of a new one.
C9_RegistryFaultStartsFresh ==
    /\ [](\A r \in Reqs :
            req[r].listThrew =>
                /\ req[r].existing = 0 /\ req[r].existingProbe = "none"
                /\ req[r].nKill = 0 /\ req[r].nStart = 1 /\ req[r].nProbe <= 1
                /\ req[r].pc \in {"start", "waitNew", "logsReady",
                                  "logsFailed", "forward"})
    /\ [][\A r \in Reqs :
            (req[r].pc = "find" /\ req'[r] # req[r]) =>
                /\ req'[r].pc \in {"waitExisting", "start"}
                /\ req'[r].outcome = "pending"
                /\ req'[r].listThrew =>
                       /\ registry' = registry
                       /\ [req'[r] EXCEPT !.listThrew = FALSE] =
                              [InHandler(req[r]) EXCEPT !.pc = "start",
                                                        !.nStart = 1]]_vars

\* A call whose registry query raised and that started a new process.
C9_Witness ==
    \E r \in Reqs :
        /\ req[r].listThrew /\ req[r].pc = "waitNew" /\ req[r].process # 0

\* C10: when the start call raises, the call fails with the launch error at
\* once (503, nothing forwarded): no probe and no log fetch follow, and no
\* registry entry has been created.
C10_LaunchFailure ==
    /\ [][\A r \in Reqs :
            (req[r].pc = "start" /\ req'[r] # req[r]) =>
                \/ /\ Len(registry') = Len(registry) + 1
                   /\ req'[r].pc = "waitNew"
                   /\ req'[r].process = Len(registry')
                \/ /\ registry' = registry
                   /\ req'[r].pc = "done"
                   /\ req'[r].outcome = "threw"
                   /\ req'[r].error = "LaunchError"
                   /\ req'[r].status = 503
                   /\ req'[r].fwd = "none"]_vars
    /\ [][\A r \in Reqs : req[r].pc = "done" => req'[r] = req[r]]_vars
    /\ [](\A r \in Reqs :
            req[r].error = "LaunchError" =>
                req[r].pc = "done" /\ req[r].outcome = "threw")

\* A call that failed with the launch error.
C10_Witness ==
    \E r \in Reqs : req[r].pc = "done" /\ req[r].error = "LaunchError"

\* C11: when the probe of the started process timed out and the log fetch
\* in the catch block succeeded, the call fails with GatewayStartupFailed,
\* whose message is the one built from the fetched stderr ("(empty)" for
\* none), and not with the timeout error of the probe.
C11_StartupFailedCarriesStderr ==
    [][\A r \in Reqs :
        ( /\ req[r].pc = "logsFailed" /\ req[r].newProbe = "Timeout"
          /\ req'[r].pc = "done" /\ req'[r].built # "none" )
        => /\ req'[r].outcome = "threw"
           /\ req'[r].built \in {StartupFailedMessage(s) : s \in Stderrs}
           /\ req'[r].error # "Timeout"
           /\ Message(req'[r].error) = req'[r].built]_vars

\* C12: when the probe of the started process timed out and the log fetch in
\* the catch block failed as well, the call fails with the timeout error of
\* the probe, never with the error of the log fetch.
C12_LogFetchFailureKeepsTimeout ==
    [][\A r \in Reqs :
        ( /\ req[r].pc = "logsFailed" /\ req[r].newProbe = "Timeout"
          /\ req'[r].pc = "done" /\ req'[r].built = "none" )
        => /\ req'[r].outcome = "threw"
           /\ req'[r].error = "Timeout"
           /\ req'[r].error = req[r].e
           /\ req'[r].status = 503]_vars

\* A call answered with the timeout error although no log could be fetched.
C12_Witness ==
    \E r \in Reqs :
        /\ req[r].pc = "done" /\ req[r].outcome = "threw"
        /\ req[r].error = "Timeout" /\ req[r].built = "none"

\* C13: a kill that raises is not propagated: the call goes on exactly as
\* after a kill that succeeded, issues the one start of a new process, and
\* what it returns is the started process after its probe succeeded.
C13_KillFaultNotPropagated ==
    /\ [](\A r \in Reqs :
            req[r].killThrew =>
                /\ req[r].pc \in {"start", "waitNew", "logsReady",
                                  "logsFailed", "forward"}
                /\ req[r].nKill = 1 /\ req[r].nStart = 1
                /\ req[r].error = "none"
                /\ req[r].pc = "forward" =>
                       /\ req[r].ret = req[r].process
                       /\ req[r].ret # req[r].existing
                       /\ req[r].newProbe = "ok")
    /\ [][\A r \in Reqs :
            (req[r].pc = "kill" /\ req'[r] # req[r]) =>
                /\ [req'[r] EXCEPT !.killThrew = FALSE] =
                       [req[r] EXCEPT !.pc = "start", !.nStart = 1]
                /\ req'[r].killThrew => registry' = registry]_vars

\* A call whose kill raised and that started a new process.
C13_Witness ==
    \E r \in Reqs :
        /\ req[r].killThrew /\ req[r].pc = "waitNew" /\ req[r].process # 0

\* C14: a probe that raises a ProbeError fails the request with that error:
\* after a ProbeError on the existing process no kill and no start is
\* issued, after one on the started process nothing but the log fetch
\* follows, and the error of the response is the ProbeError.
C14_ProbeErrorIsFatal ==
    /\ [](\A r \in Reqs :
            /\ req[r].existingProbe = "ProbeError" =>
                   req[r].nKill = 0 /\ req[r].nStart = 0
            /\ req[r].newProbe = "ProbeError" =>
                   req[r].pc = "logsFailed" /\ req[r].nStart = 1)
    /\ [][\A r \in Reqs :
            ( /\ "ProbeError" \in {req[r].existingProbe, req[r].newProbe}
              /\ req'[r] # req[r] )
            => /\ req'[r].pc = "done"
               /\ req'[r].outcome = "threw"
               /\ req'[r].error = "ProbeError"
               /\ registry' = registry]_vars

\* C15: a proxied request whose ensure call fails is answered 503 with the
\* error's message as detail and a hint, and neither wsConnect nor
\* containerFetch is called for it.
C15_EnsureFailureAnswers503 ==
    /\ [](\A r \in Reqs :
            req[r].outcome = "threw" =>
                /\ req[r].pc = "done" /\ req[r].handler = "proxy"
                /\ req[r].status = 503
                /\ req[r].error \in {"LaunchError", "Timeout", "ProbeError",
                                     "LogFetchError"}
                /\ req[r].hint \in {"ANTHROPIC_API_KEY is not set",
                                    "Gateway ran out of memory",
                                    "Check worker logs"}
                /\ req[r].fwd = "none" /\ req[r].port = 0
                /\ ~req[r].fwdFailed)
    /\ [][\A r \in Reqs :
            ( /\ req[r].pc \in {"find", "waitExisting", "kill", "start",
                                "waitNew", "logsReady", "logsFailed"}
              /\ req'[r].pc \notin {"find", "waitExisting", "kill", "start",
                                    "waitNew", "logsReady", "logsFailed"} )
            => \/ req'[r].pc = "forward" /\ req'[r].outcome = "returned"
               \/ req'[r].pc = "done" /\ req'[r].outcome = "threw"]_vars

\* A request answered 503 with the hint about the missing key.
C15_Witness ==
    \E r \in Reqs :
        /\ req[r].pc = "done" /\ req[r].status = 503
        /\ req[r].hint = "ANTHROPIC_API_KEY is not set"

\* C16: a request whose ensure call returned is forwarded once, with no
\* retry, and when the forward fails the response is a 502.
C16_ForwardOnceFailureIs502 ==
    [][\A r \in Reqs :
        (req[r].pc = "forward" /\ req'[r] # req[r]) =>
            /\ req'[r].pc = "done"
            /\ req'[r].fwd = req[r].fwd
            /\ req'[r].fwdFailed => req'[r].status = 502]_vars

\* C17: a request whose ensure call returned is relayed with wsConnect
\* exactly when its Upgrade header is "websocket" in any letter case, and
\* with containerFetch otherwise (no header or another value); both go to
\* port 18789 with the request object the worker received.
C17_WebSocketIffUpgrade ==
    \A r \in Reqs :
        req[r].pc = "forward" =>
            /\ req[r].outcome = "returned"
            /\ req[r].upgrade \in UpgradeHeaders
            /\ req[r].fwd = "wsConnect" <=>
                   req[r].upgrade \in {"websocket", "WebSocket", "WEBSOCKET"}
            /\ req[r].fwd = "containerFetch" <=>
                   req[r].upgrade \in {"NoHeader", "h2c"}
            /\ req[r].port = CLAWDBOT_PORT
            /\ req[r].fwdRequest = "c.req.raw"

\* A request with a mixed-case Upgrade header relayed as a WebSocket.
C17_Witness ==
    \E r \in Reqs :
        /\ req[r].pc = "forward" /\ req[r].upgrade = "WebSocket"
        /\ req[r].fwd = "wsConnect"

\* C18: a request to /sandbox-health, whatever its method, is answered with
\* the static body naming port 18789 and the supervisor is not invoked for
\* it: no registry query, probe, kill, start or forward.
C18_HealthNeverSupervises ==
    \A r \in Reqs :
        req[r].path = HealthPath =>
            /\ req[r].pc = "done" /\ req[r].handler = "health"
            /\ req[r].status = 200 /\ req[r].port = CLAWDBOT_PORT
            /\ req[r].nList = 0 /\ req[r].nProbe = 0 /\ req[r].nKill = 0
            /\ req[r].nStart = 0 /\ req[r].fwd = "none"

\* C19: the handlers of /debug/version, /debug/processes and /debug/logs
\* never run the supervisor and never start or kill a process: no step of
\* theirs changes the registry.
C19_DebugRoutesReadOnly ==
    /\ [](\A r \in Reqs :
            req[r].handler \in {"version", "processes", "logs"} =>
                /\ req[r].nList = 0 /\ req[r].nProbe = 0 /\ req[r].nKill = 0
                /\ req[r].nStart = 0 /\ req[r].outcome = "pending"
                /\ req[r].fwd = "none")
    /\ [][\A r \in Reqs :
            ( /\ req[r].handler \in {"version", "processes", "logs"}
              /\ req'[r] # req[r] )
            => registry' = registry]_vars

\* C20: with DEBUG_ROUTES_ENABLED = "false" a request to a path under
\* /debug/ is answered 404 by the gate: no debug handler, registry query,
\* supervisor call or forward runs for it.
C20_GateOffAnswers404 ==
    \A r \in Reqs :
        /\ (IsDebugPath(req[r].path) /\ req[r].gate = "false") =>
               /\ req[r].pc = "done" /\ req[r].handler = "disabled"
               /\ req[r].status = 404
               /\ req[r].nList = 0 /\ req[r].nProbe = 0 /\ req[r].nKill = 0
               /\ req[r].nStart = 0 /\ req[r].nLogs = 0
               /\ req[r].process = 0 /\ req[r].outcome = "pending"
               /\ req[r].fwd = "none"
        /\ req[r].handler = "disabled" =>
               /\ IsDebugPath(req[r].path) /\ req[r].gate = "false"
               /\ req[r].status = 404

\* A GET of /debug/version answered 404 by the gate.
C20_Witness ==
    \E r \in Reqs :
        /\ req[r].handler = "disabled" /\ req[r].status = 404
        /\ req[r].method = "GET" /\ req[r].path = <<"debug", "version">>

C22_StartEnvIsNonEmptyRecognized ==
    (fn.name = "buildEnvVars" /\ fn.done) =>
        LET present == { n \in EnvNames : fn.input[n] \notin {"undefined", ""} }
            wanted == present \cap RecognizedNames
        IN  /\ DOMAIN fn.output.env = wanted
            /\ \A n \in wanted : fn.output.env[n] = fn.input[n]
            /\ fn.output.passed <=> wanted # {}

\* An environment with an empty recognized binding and an unrecognized
\* one: nothing is passed.
C22_Witness ==
    /\ fn.name = "buildEnvVars" /\ fn.done
    /\ fn.input["OPENAI_API_KEY"] = ""
    /\ fn.input["DEBUG_ROUTES_ENABLED"] = "value"
    /\ ~fn.output.passed

\* C23: the lookup returns the first process, in enumeration order, whose
\* command is the start script's or the gateway's and whose status is
\* starting or running, and null when there is none; a process that exited
\* or failed or runs another command is never returned.
C23_LookupReturnsFirstLiveMatch ==
    (fn.name = "findExistingClawdbotProcess" /\ fn.done) =>
        LET procs == fn.input
            Hit(i) == /\ procs[i].command \in {StartCommand, GatewayCommand}
                      /\ procs[i].status \in {"starting", "running"}
        IN  IF \E i \in DOMAIN procs : Hit(i)
            THEN /\ fn.output \in DOMAIN procs
                 /\ Hit(fn.output)
                 /\ \A i \in 1..(fn.output - 1) : ~Hit(i)
            ELSE fn.output = 0

\* An exited gateway, then two live matches: the second entry is returned.
C23_Witness ==
    /\ fn.name = "findExistingClawdbotProcess" /\ fn.done
    /\ Len(fn.input) = 3
    /\ fn.input[1].command = GatewayCommand /\ fn.input[1].status = "exited"
    /\ fn.input[2].command = StartCommand /\ fn.input[2].status = "starting"
    /\ fn.input[3].command = GatewayCommand /\ fn.input[3].status = "running"
    /\ fn.output = 2

\* C25: a failure of the diagnostic log fetch never replaces the primary
\* result: once the probe of the started process has succeeded, the step
\* that settles getLogs makes the call return that process, whether getLogs
\* resolves or rejects.
C25_LogFetchFailureKeepsSuccess ==
    [][\A r \in Reqs :
         (req[r].pc = "logsReady" /\ req'[r] # req[r]) =>
             /\ req'[r].outcome = "returned"
             /\ req'[r].ret = req[r].process]_vars

\* C26: no request whose path is under /debug/ reaches the catch-all
\* handler, which ensures the backend and proxies the request.
C26_DebugNeverProxied ==
    \A r \in Reqs : IsDebugPath(req[r].path) => req[r].handler # "proxy"

\* C24: the configuration patch is idempotent: with the environment fixed,
\* patching a file that the patch has written leaves the file as it is.
C24_PatchIdempotent ==
    [][(script.pc = "patch" /\ script.patched > 0 /\ script'.pc = "launch")
          => script'.file = script.file]_vars

\* The second run has patched a configuration that began with a stale
\* token, stale proxies and a stale port, in an environment without token.
C24_Witness ==
    /\ script.pc = "launch" /\ script.patched = 2
    /\ ~Truthy(GwToken(script.env))
    /\ ~Has(script.file.json["gateway"], "auth")
    /\ script.file.json["gateway"]["trustedProxies"] = <<"10.1.0.0">>
    /\ IsSet(script.env, "TELEGRAM_BOT_TOKEN")

\* C28: the gateway is launched with --token exactly when the patched
\* configuration file has gateway.auth.token set.
C28_LaunchTokenMatchesConfig ==
    script.pc = "gateway" =>
        (script.args # <<>> <=>
            /\ Has(script.file.json["gateway"], "auth")
            /\ Has(script.file.json["gateway"]["auth"], "token"))

\* C27: every modification is mirrored without a later modification: when
\* a scan of the sync loop finds no changed file, the remote copy of every
\* file is the local one.
C27_WriteDuringSyncIsMirrored ==
    [][(sync.pc = "scan" /\ sync'.pc = "count" /\ sync'.changed = {})
          => \A f \in SyncFiles : sync.remote[f] = sync.local[f]]_vars

====
